---- MODULE Spec2Model ----
(***************************************************************************)
(* TeachAgentAI: the CoordinatorAgent (agents/coordinator.py) with the     *)
(* parts of EmailService (services/email_service.py) it drives.            *)
(*                                                                         *)
(* Threads: the monitoring thread "mon" (EmailService._monitoring_loop,    *)
(* which calls handle_new_emails with every fetched batch), two direct     *)
(* callers "c1" and "c2" of handle_new_emails, the daily-reset threads     *)
(* started by start(), and an operator calling approve_response (with a    *)
(* second one for concurrent calls).  The program counter of a thread      *)
(* names the call it is in or the statement it runs next.  Dates are day   *)
(* numbers, confidences are hundredths.                                    *)
(* Message ids number the messages in the order in which they appear.      *)
(*                                                                         *)
(* The actions take the sets their inputs are drawn from as parameters;    *)
(* each specification at the end runs the threads of one scenario with     *)
(* the inputs that scenario needs.                                         *)
(***************************************************************************)
EXTENDS Integers, Sequences, FiniteSets, TLC

\* ---------------------------------------------------------------- bounds
MaxEmailsPerDay == 2     \* OVERSIGHT_CONFIG["max_auto_emails_per_day"]
MaxDay == 2              \* days are 1..MaxDay
NMsgs == 6               \* message ids 1..NMsgs
MaxApproveCalls == 2     \* calls of approve_response, in total

\* ------------------------------------------------------- program constants
ConfidenceThreshold == 70   \* OVERSIGHT_CONFIG["confidence_threshold"] = 0.7

None == "<None>"            \* Python's None, distinct from every text
Free == "free"              \* counter_lock not held

Msgs == 1..NMsgs
Days == 1..MaxDay
Callers == {"c1", "c2"}
Handlers == {"mon"} \cup Callers
Resetters == {"r1", "r2"}

\* The intents NLPService knows (self.intents), with the words each holds:
\* the coordinator tests `"grade" in intent`, a substring test, and within
\* these labels a keyword is a substring of a label exactly when it is one
\* of the label's words.
Intents ==
    {"assignment_question", "grade_inquiry", "conceptual_question",
     "administrative", "technical_issue", "personal_circumstance", "other"}

IntentWords(i) ==
    CASE i = "assignment_question"   -> {"assignment", "question"}
      [] i = "grade_inquiry"         -> {"grade", "inquiry"}
      [] i = "conceptual_question"   -> {"conceptual", "question"}
      [] i = "administrative"        -> {"administrative"}
      [] i = "technical_issue"       -> {"technical", "issue"}
      [] i = "personal_circumstance" -> {"personal", "circumstance"}
      [] i = "personal_matter"       -> {"personal", "matter"}
      [] OTHER                       -> {"other"}

Contains(word, intent) == word \in IntentWords(intent)

Confidences == {0, 69, 70, 100}

\* What the model behind classify_intent does: the API call raises, or it
\* answers a text.  Of the text: the label after "Intent:" (Absent when the
\* text has no such line), and what follows "Confidence:": nothing, a number
\* (in hundredths) or something float() rejects.
Absent == "<absent>"

Raises == [api |-> "raises", intent |-> Absent, ckind |-> "absent", cval |-> 0]

Says(i, c) == [api |-> "ok", intent |-> i, ckind |-> "number", cval |-> c]

Garbled(i) == [api |-> "ok", intent |-> i, ckind |-> "garbled", cval |-> 0]

\* _parse_classification_result.  float() raising leaves the function by its
\* except clause, past the two validations, with the label as it was read.
ParseClassificationResult(raw) ==
    LET intent0 == IF raw.intent = Absent THEN "other" ELSE raw.intent
    IN IF raw.ckind = "garbled" THEN <<intent0, 0>>
       ELSE LET conf0 == IF raw.ckind = "absent" THEN 0 ELSE raw.cval
                intent1 == IF intent0 \in Intents THEN intent0 ELSE "other"
                conf1 == IF conf0 < 0 THEN 0
                         ELSE IF conf0 > 100 THEN 100 ELSE conf0
            IN <<intent1, conf1>>

\* classify_intent: ("other", 0.0) when the call raises.
ClassifyIntent(raw) ==
    IF raw.api = "raises" THEN <<"other", 0>>
    ELSE ParseClassificationResult(raw)

\* The classifier failed: the call raised, or the parse of its answer did.
ClassifierFailed(raw) == raw.api = "raises" \/ raw.ckind = "garbled"

\* The well-formed answers: any label of the closed set with a confidence
\* in [0,1].
ClassifyResults == {Says(i, c) : i \in Intents, c \in Confidences}

\* Message m's From address (EmailMessage.sender_email).
Sender(m) == IF m % 8 = 6 THEN "eve@university.edu.example.org"
             ELSE IF m % 4 = 0 THEN "prof@example.org"
             ELSE IF m % 4 = 2 THEN "b@university.edu"
             ELSE "a@university.edu"

Addresses == {"a@university.edu", "b@university.edu", "prof@example.org",
              "eve@university.edu.example.org"}

\* EMAIL_CONFIG["student_domain"].
StudentDomain == "university.edu"

\* An address cut at the "@" and around the text of the student domain.
Parts(e) ==
    CASE e = "a@university.edu" -> <<"a", "@", "university.edu">>
      [] e = "b@university.edu" -> <<"b", "@", "university.edu">>
      [] e = "prof@example.org" -> <<"prof", "@", "example.org">>
      [] e = "eve@university.edu.example.org"
           -> <<"eve", "@", "university.edu", ".example.org">>

\* The domain of an address: what follows the "@".
DomainOf(e) ==
    LET p == Parts(e)
        at == CHOOSE i \in 1..Len(p) : p[i] = "@"
    IN SubSeq(p, at + 1, Len(p))

\* The address is in the student domain.
InStudentDomain(e) == DomainOf(e) = <<StudentDomain>>

\* Python's `student_domain in sender_email`: the text occurs somewhere in
\* the address.
ContainsDomain(e) == \E i \in 1..Len(Parts(e)) : Parts(e)[i] = StudentDomain

\* The addresses is_student_email accepts: the keys the cache and the
\* knowledge store can get.
StudentEmails == {e \in Addresses : ContainsDomain(e)}

\* EmailMessage.is_student_email.
IsStudentEmail(m) == ContainsDomain(Sender(m))

\* EmailAgent.generate_response: a text, or nothing.
GenTexts == {None, "", "draft"}
\* approve_response's revised_response argument.
RevTexts == {None, "", "rev"}

\* Python truthiness of an Optional[str].
Truthy(x) == x # None /\ x # ""

VARIABLES
    active,            \* CoordinatorAgent.active
    email_counter,     \* CoordinatorAgent.email_counter
    last_reset_date,   \* CoordinatorAgent.last_reset_date
    pending_approvals, \* CoordinatorAgent.pending_approvals
    students,          \* CoordinatorAgent.students: email -> Student (0: none)
    counter_lock,      \* CoordinatorAgent.counter_lock: Free or its holder
    require_approval,  \* OVERSIGHT_CONFIG["require_approval"]
    approval_email,    \* OVERSIGHT_CONFIG["approval_email"] is set
    hist,              \* Student.conversation_history of every Student object
    kb,                \* the knowledge store: email -> [known, hist]
    today,             \* datetime.now().date()
    inbox,             \* the INBOX: message -> day it arrived (0: not yet)
    last_check_date,   \* date of EmailService.last_check_time
    mon_alive,         \* EmailService.monitoring_thread.is_alive()
    stop_monitoring,   \* EmailService.stop_monitoring (the Event)
    smtp_client,       \* EmailService.smtp_client is set (not None)
    h,                 \* the handler threads' locals
    r,                 \* the reset threads' locals
    a,                 \* the approve_response call's locals
    sent,              \* the replies to students the transport accepted, in order
    qlog,              \* the quota checks made, in order: [day, ok, msg]
    rlog,              \* the resets made, in order: the date each observed
    processed,         \* message -> times it was classified
    handed,            \* messages handed to handle_new_emails so far
    enqueued,          \* approval items appended so far
    resolved,          \* approval ids of the approve calls that returned True
    ncalls,            \* approve_response calls so far
    direct,            \* messages handed to handle_new_emails directly
    life,              \* the last start()/stop() call and how it went
    failed,            \* messages whose auto-response send returned False
    a2,                \* the locals of a second, concurrent approve_response call
    lookups,           \* email -> calls of knowledge_base.get_student so far
    created,           \* email -> Student records constructed and added so far
    raised,            \* the messages whose processing raised, and where
    unnotified,        \* messages whose approval notification was not sent
    mon_ticks          \* parity of the monitoring loop's ticks so far

vars == <<active, email_counter, last_reset_date, pending_approvals, students,
          counter_lock, require_approval, approval_email, hist, kb, today,
          inbox, last_check_date, mon_alive, stop_monitoring, h, r, a, sent,
          qlog, rlog, processed, handed, enqueued, resolved, ncalls, direct,
          smtp_client, life, failed, a2, lookups, created, raised,
          unnotified, mon_ticks>>

coord == <<active, email_counter, last_reset_date, pending_approvals, students,
           counter_lock>>
config == <<require_approval, approval_email>>
ledger == <<hist, kb>>
mail == <<inbox, last_check_date, mon_alive, stop_monitoring>>
ghosts == <<qlog, rlog, processed, handed, enqueued, resolved, ncalls, direct>>
watch == <<life, failed>>
notes == <<lookups, created, raised, unnotified, mon_ticks>>

HIdle == [pc |-> "idle", batch |-> <<>>, msg |-> 0, stu |-> 0, intent |-> "",
          conf |-> 0, resp |-> None, inlock |-> FALSE, slot |-> 0 - 1,
          epoch |-> 0, cfail |-> FALSE]

RNone == [pc |-> "none", cur |-> 0]

NoItem == [email |-> 0, student |-> 0, intent |-> "", draft_response |-> None,
           timestamp |-> 0]

AIdle == [pc |-> "idle", id |-> 0, rev |-> None, item |-> NoItem, resp |-> None,
          result |-> "none"]

\* CoordinatorAgent.__init__ and EmailService.__init__.
Init ==
    /\ active = FALSE
    /\ email_counter = 0
    /\ today = 1
    /\ last_reset_date = today
    /\ pending_approvals = <<>>
    /\ students = [e \in StudentEmails |-> 0]
    /\ counter_lock = Free
    /\ require_approval \in BOOLEAN
    /\ approval_email \in BOOLEAN
    /\ hist = <<>>
    /\ kb \in [StudentEmails -> {[known |-> FALSE, hist |-> <<>>],
                                 [known |-> TRUE, hist |-> <<>>]}]
    /\ inbox = [m \in Msgs |-> 0]
    /\ last_check_date = today - 1
    /\ mon_alive = FALSE
    /\ stop_monitoring = FALSE
    /\ h = [t \in Handlers |-> HIdle]
    /\ r = [t \in Resetters |-> RNone]
    /\ a = AIdle
    /\ sent = <<>>
    /\ qlog = <<>>
    /\ rlog = <<>>
    /\ processed = [m \in Msgs |-> 0]
    /\ handed = 0
    /\ enqueued = 0
    /\ resolved = {}
    /\ ncalls = 0
    /\ direct = {}
    /\ smtp_client = FALSE
    /\ life = "none"
    /\ failed = {}
    /\ a2 = AIdle
    /\ lookups = [e \in StudentEmails |-> 0]
    /\ created = [e \in StudentEmails |-> 0]
    /\ raised = {}
    /\ unnotified = {}
    /\ mon_ticks = 0

\* ------------------------------------------------------------- helpers
Last(s) == s[Len(s)]

\* A removal that fills the hole with the last element.
RemoveAt_MovesLast(s, i) ==
    IF i = Len(s) THEN SubSeq(s, 1, Len(s) - 1)
    ELSE SubSeq(s, 1, i - 1) \o <<s[Len(s)]>> \o SubSeq(s, i + 1, Len(s) - 1)

\* list.pop(i - 1): the list without its i-th element.
RemoveAt(s, i) == SubSeq(s, 1, i - 1) \o SubSeq(s, i + 1, Len(s))

\* The ascending sequence of the members of a set of message ids.
RECURSIVE Ascending(_)
Ascending(S) ==
    IF S = {} THEN <<>>
    ELSE LET m == CHOOSE x \in S : \A y \in S : x <= y
         IN <<m>> \o Ascending(S \ {m})

\* A lock that never makes a thread wait.
LockAvailable_Always == TRUE

\* `with self.counter_lock:` may enter.
LockAvailable == counter_lock = Free

\* The grade branch with `<=` for `<`.
NeedsReview_AtThreshold(intent, conf) ==
    IF Contains("assignment", intent) \/ Contains("conceptual", intent) THEN FALSE
    ELSE IF Contains("grade", intent) THEN conf <= ConfidenceThreshold
    ELSE IF Contains("administrative", intent) THEN FALSE
    ELSE IF Contains("technical", intent) THEN FALSE
    ELSE IF Contains("personal", intent) THEN TRUE
    ELSE FALSE

\* handle_new_emails' branch on the intent: TRUE when the message goes
\* straight to _queue_for_approval, FALSE when to _handle_via_email_agent.
NeedsReview(intent, conf) ==
    IF Contains("assignment", intent) \/ Contains("conceptual", intent) THEN FALSE
    ELSE IF Contains("grade", intent) THEN conf < ConfidenceThreshold
    ELSE IF Contains("administrative", intent) THEN FALSE
    ELSE IF Contains("technical", intent) THEN FALSE
    ELSE IF Contains("personal", intent) THEN TRUE
    ELSE FALSE

\* The limit test with `>` for `>=`.
LimitReached_Late(counter) == counter > MaxEmailsPerDay

\* _handle_via_email_agent's two tests under the lock.
LimitReached(counter) == counter >= MaxEmailsPerDay

\* The tests without the one on require_approval.
MustQueue_NoFlag(counter, flag) == LimitReached(counter)

MustQueue(counter, flag) == LimitReached(counter) \/ flag

\* approve_response's choice of the text to send.
ChooseResponse(rev, draft) == IF Truthy(rev) THEN rev ELSE draft

\* Student.update_conversation's new entry (the timestamp left out).
Interaction(m, response, intent) ==
    [msg |-> m, response |-> response, intent |-> intent]

\* The history replaced by the new entry.
UpdateConversation_Overwrite(history, m, response, intent) ==
    <<Interaction(m, response, intent)>>

UpdateConversation(history, m, response, intent) ==
    Append(history, Interaction(m, response, intent))

\* KnowledgeBase.update_student / add_student: the store keeps the record.
KbStore(store, email, history) ==
    [store EXCEPT ![email] = [known |-> TRUE, hist |-> history]]

\* The handler's locals when it is done with a message: back at the loop.
HLoop(t) == [HIdle EXCEPT !.pc = "next", !.batch = h[t].batch]

\* Leaving `with self.counter_lock:`.
Released(t) == IF h[t].inlock THEN Free ELSE counter_lock

\* -------------------------------------------------- handle_new_emails
\* The loop head: the next message of the batch, the student-domain test,
\* and _get_or_create_student's look in the cache.
HNext(t) ==
    /\ h[t].pc = "next"
    /\ IF h[t].batch = <<>>
       THEN h' = [h EXCEPT ![t] = HIdle]
       ELSE LET m == Head(h[t].batch)
                rest == Tail(h[t].batch)
            IN IF ~IsStudentEmail(m)
               THEN h' = [h EXCEPT ![t].batch = rest]
               ELSE IF students[Sender(m)] # 0
               THEN h' = [h EXCEPT ![t].batch = rest, ![t].msg = m,
                                   ![t].stu = students[Sender(m)],
                                   ![t].pc = "classify"]
               ELSE h' = [h EXCEPT ![t].batch = rest, ![t].msg = m,
                                   ![t].pc = "kbget"]
    /\ UNCHANGED <<a2, notes>>
    /\ UNCHANGED <<smtp_client, watch, coord, config, ledger, today, mail, r, a, sent, ghosts>>

\* _get_or_create_student: knowledge_base.get_student(email).
HKbGet(t) ==
    /\ h[t].pc = "kbget"
    /\ IF kb[Sender(h[t].msg)].known
       THEN /\ hist' = Append(hist, kb[Sender(h[t].msg)].hist)
            /\ h' = [h EXCEPT ![t].stu = Len(hist) + 1, ![t].pc = "cache"]
       ELSE /\ hist' = hist
            /\ h' = [h EXCEPT ![t].pc = "kbadd"]
    /\ lookups' = [lookups EXCEPT ![Sender(h[t].msg)] = @ + 1]
    /\ UNCHANGED <<a2, created, raised, unnotified, mon_ticks>>
    /\ UNCHANGED <<smtp_client, watch, coord, config, kb, today, mail, r, a, sent, ghosts>>

\* _get_or_create_student: Student(email, name) and add_student.
HKbAdd(t) ==
    /\ h[t].pc = "kbadd"
    /\ hist' = Append(hist, <<>>)
    /\ kb' = KbStore(kb, Sender(h[t].msg), <<>>)
    /\ h' = [h EXCEPT ![t].stu = Len(hist) + 1, ![t].pc = "cache"]
    /\ created' = [created EXCEPT ![Sender(h[t].msg)] = @ + 1]
    /\ UNCHANGED <<a2, lookups, raised, unnotified, mon_ticks>>
    /\ UNCHANGED <<smtp_client, watch, coord, config, today, mail, r, a, sent, ghosts>>

\* _get_or_create_student without its cache.
HCache_Forgets(t) ==
    /\ h[t].pc = "cache"
    /\ h' = [h EXCEPT ![t].pc = "classify"]
    /\ UNCHANGED <<a2, notes>>
    /\ UNCHANGED <<smtp_client, watch, coord, config, ledger, today, mail, r,
                   a, sent, ghosts>>

\* _get_or_create_student: self.students[email] = student.
HCache(t) ==
    /\ h[t].pc = "cache"
    /\ students' = [students EXCEPT ![Sender(h[t].msg)] = h[t].stu]
    /\ h' = [h EXCEPT ![t].pc = "classify"]
    /\ UNCHANGED <<a2, notes>>
    /\ UNCHANGED <<smtp_client, watch, active, email_counter, last_reset_date, pending_approvals,
                   counter_lock, config, ledger, today, mail, r, a, sent,
                   ghosts>>

\* classify_intent returns, and the branch on the intent.
HClassify(t, results) ==
    /\ h[t].pc = "classify"
    /\ \E raw \in results :
         LET res == ClassifyIntent(raw)
         IN h' = [h EXCEPT ![t].intent = res[1], ![t].conf = res[2],
                           ![t].cfail = ClassifierFailed(raw),
                           ![t].pc = IF NeedsReview(res[1], res[2])
                                     THEN "q_gen" ELSE "lock"]
    /\ processed' = [processed EXCEPT ![h[t].msg] = @ + 1]
    /\ UNCHANGED <<a2, notes>>
    /\ UNCHANGED <<smtp_client, watch, coord, config, ledger, today, mail, r, a, sent, qlog, rlog,
                   handed, enqueued, resolved, ncalls, direct>>

\* _handle_via_email_agent: `with self.counter_lock:` entered.
HLock(t) ==
    /\ h[t].pc = "lock"
    /\ LockAvailable
    /\ counter_lock' = t
    /\ h' = [h EXCEPT ![t].pc = "check", ![t].inlock = TRUE]
    /\ UNCHANGED <<a2, notes>>
    /\ UNCHANGED <<smtp_client, watch, active, email_counter, last_reset_date, pending_approvals,
                   students, config, ledger, today, mail, r, a, sent, ghosts>>

\* The tests with a refused message dropped in place of queued.
HCheck_Drops(t) ==
    /\ h[t].pc = "check"
    /\ IF MustQueue(email_counter, require_approval)
       THEN /\ h' = [h EXCEPT ![t] = HLoop(t)]
            /\ counter_lock' = Free
            /\ qlog' = Append(qlog, [day |-> today, ok |-> FALSE,
                                     msg |-> h[t].msg])
       ELSE /\ h' = [h EXCEPT ![t].pc = "inc", ![t].slot = email_counter,
                              ![t].epoch = Len(rlog)]
            /\ counter_lock' = counter_lock
            /\ qlog' = Append(qlog, [day |-> today, ok |-> TRUE,
                                     msg |-> h[t].msg])
    /\ UNCHANGED <<a2, notes>>
    /\ UNCHANGED <<smtp_client, watch, active, email_counter, last_reset_date, pending_approvals,
                   students, config, ledger, today, mail, r, a, sent, rlog,
                   processed, handed, enqueued, resolved, ncalls, direct>>

\* The limit test and the require_approval test.
HCheck(t) ==
    /\ h[t].pc = "check"
    /\ IF MustQueue(email_counter, require_approval)
       THEN /\ h' = [h EXCEPT ![t].pc = "q_gen"]
            /\ qlog' = Append(qlog, [day |-> today, ok |-> FALSE,
                                     msg |-> h[t].msg])
       ELSE /\ h' = [h EXCEPT ![t].pc = "inc", ![t].slot = email_counter,
                              ![t].epoch = Len(rlog)]
            /\ qlog' = Append(qlog, [day |-> today, ok |-> TRUE,
                                     msg |-> h[t].msg])
    /\ UNCHANGED <<a2, notes>>
    /\ UNCHANGED <<smtp_client, watch, coord, config, ledger, today, mail, r, a, sent, rlog,
                   processed, handed, enqueued, resolved, ncalls, direct>>

\* self.email_counter += 1, and the lock is left.
HInc(t) ==
    /\ h[t].pc = "inc"
    /\ email_counter' = email_counter + 1
    /\ counter_lock' = Free
    /\ h' = [h EXCEPT ![t].pc = "gen", ![t].inlock = FALSE, ![t].conf = 0]
    /\ UNCHANGED <<a2, notes>>
    /\ UNCHANGED <<smtp_client, watch, active, last_reset_date, pending_approvals, students,
                   config, ledger, today, mail, r, a, sent, ghosts>>

\* generate_response returns on the auto-respond path.
HGen(t, texts) ==
    /\ h[t].pc = "gen"
    /\ \E text \in texts :
         h' = [h EXCEPT ![t] = IF Truthy(text)
                               THEN [h[t] EXCEPT !.resp = text, !.pc = "send"]
                               ELSE HLoop(t)]
    /\ UNCHANGED <<a2, notes>>
    /\ UNCHANGED <<smtp_client, watch, coord, config, ledger, today, mail, r, a, sent, ghosts>>

\* send_response returns on the auto-respond path.  send_email leaves a
\* client behind when it returns True; when it returns False the client is
\* set (connected, or left half-made by a failed login) or not.
HSend(t) ==
    /\ h[t].pc = "send"
    /\ \E ok \in BOOLEAN :
         IF ok
         THEN /\ sent' = Append(sent, [to |-> Sender(h[t].msg), msg |-> h[t].msg,
                                       text |-> h[t].resp, stu |-> h[t].stu,
                                       via |-> "auto"])
              /\ h' = [h EXCEPT ![t].pc = "upd"]
              /\ smtp_client' = TRUE
              /\ failed' = failed
         ELSE /\ sent' = sent
              /\ h' = [h EXCEPT ![t] = HLoop(t)]
              /\ smtp_client' \in BOOLEAN
              /\ failed' = failed \cup {h[t].msg}
    /\ UNCHANGED <<a2, notes>>
    /\ UNCHANGED <<life, coord, config, ledger, today, mail, r, a, ghosts>>

\* A reply that was sent and recorded, and is put on the queue as well.
HUpdate_AlsoQueues(t) ==
    /\ h[t].pc = "upd"
    /\ hist' = [hist EXCEPT ![h[t].stu] =
                  UpdateConversation(@, h[t].msg, h[t].resp, h[t].intent)]
    /\ kb' = KbStore(kb, Sender(h[t].msg), hist'[h[t].stu])
    /\ h' = [h EXCEPT ![t].pc = "q_gen"]
    /\ UNCHANGED <<a2, notes>>
    /\ UNCHANGED <<smtp_client, watch, coord, config, today, mail, r, a, sent,
                   ghosts>>

\* student.update_conversation and knowledge_base.update_student.
HUpdate(t) ==
    /\ h[t].pc = "upd"
    /\ hist' = [hist EXCEPT ![h[t].stu] =
                  UpdateConversation(@, h[t].msg, h[t].resp, h[t].intent)]
    /\ kb' = KbStore(kb, Sender(h[t].msg), hist'[h[t].stu])
    /\ h' = [h EXCEPT ![t] = HLoop(t)]
    /\ UNCHANGED <<a2, notes>>
    /\ UNCHANGED <<smtp_client, watch, coord, config, today, mail, r, a, sent, ghosts>>

\* _queue_for_approval: generate_response returns and the item is appended.
QAppend(t, texts) ==
    /\ h[t].pc = "q_gen"
    /\ \E text \in texts :
         /\ pending_approvals' =
              Append(pending_approvals,
                     [email |-> h[t].msg, student |-> h[t].stu,
                      intent |-> h[t].intent, draft_response |-> text,
                      timestamp |-> enqueued + 1])
         /\ h' = [h EXCEPT ![t] = IF approval_email
                                  THEN [h[t] EXCEPT !.pc = "q_notify",
                                                    !.conf = 0, !.resp = text]
                                  ELSE HLoop(t)]
    /\ enqueued' = enqueued + 1
    /\ counter_lock' = IF approval_email THEN counter_lock ELSE Released(t)
    /\ UNCHANGED <<a2, notes>>
    /\ UNCHANGED <<smtp_client, watch, active, email_counter, last_reset_date, students, config,
                   ledger, today, mail, r, a, sent, qlog, rlog, processed,
                   handed, resolved, ncalls, direct>>

\* A failed notification that takes the item out of the queue again.
QNotified_RollsBack(t, ok) ==
    /\ h[t].pc = "q_notify"
    /\ h' = [h EXCEPT ![t] = HLoop(t)]
    /\ counter_lock' = Released(t)
    /\ IF ok THEN smtp_client' = TRUE ELSE smtp_client' \in BOOLEAN
    /\ pending_approvals' =
         IF ok THEN pending_approvals
         ELSE SubSeq(pending_approvals, 1, Len(pending_approvals) - 1)
    /\ UNCHANGED <<a2, lookups, created, raised, mon_ticks>>
    /\ UNCHANGED <<watch, active, email_counter, last_reset_date, students,
                   config, ledger, today, mail, r, a, sent, ghosts>>

\* _send_for_approval: send_email returns, with success (ok) or without;
\* its result is not looked at.  Then _queue_for_approval returns.
QNotified(t, ok) ==
    /\ h[t].pc = "q_notify"
    /\ h' = [h EXCEPT ![t] = HLoop(t)]
    /\ counter_lock' = Released(t)
    /\ IF ok THEN smtp_client' = TRUE ELSE smtp_client' \in BOOLEAN
    /\ UNCHANGED <<a2, lookups, created, raised, mon_ticks>>
    /\ UNCHANGED <<watch, active, email_counter, last_reset_date, pending_approvals,
                   students, config, ledger, today, mail, r, a, sent, ghosts>>

QNotify(t) == \E ok \in BOOLEAN : QNotified(t, ok) /\ UNCHANGED unnotified

\* The same, with a note of the messages whose notification failed.
QNotifyNoted(t) ==
    \E ok \in BOOLEAN :
      /\ QNotified(t, ok)
      /\ unnotified' = IF ok THEN unnotified ELSE unnotified \cup {h[t].msg}

\* The same, the failed notifications noted.
HandleNoted(t, results, texts) ==
    \/ HNext(t) \/ HKbGet(t) \/ HKbAdd(t) \/ HCache(t)
    \/ HClassify(t, results)
    \/ HLock(t) \/ HCheck(t) \/ HInc(t)
    \/ HGen(t, texts) \/ HSend(t) \/ HUpdate(t)
    \/ QAppend(t, texts) \/ QNotifyNoted(t)

\* The calls inside handle_new_emails' try block that can raise: those of
\* the knowledge store, the response generator and the transport, and
\* update_conversation (classify_intent catches what it raises itself).
RaisePoints == {"kbget", "kbadd", "gen", "send", "upd", "q_gen", "q_notify"}

\* An exception that ends the whole batch.
HRaise_AbortsBatch(t) ==
    /\ h[t].pc \in RaisePoints
    /\ h' = [h EXCEPT ![t] = HIdle]
    /\ counter_lock' = Released(t)
    /\ raised' = raised \cup {[msg |-> h[t].msg, at |-> h[t].pc,
                               rest |-> h[t].batch, inlock |-> h[t].inlock]}
    /\ UNCHANGED <<a2, lookups, created, unnotified, mon_ticks>>
    /\ UNCHANGED <<smtp_client, watch, active, email_counter, last_reset_date,
                   pending_approvals, students, config, ledger, today, mail,
                   r, a, sent, ghosts>>

\* One of these calls raises while message h[t].msg is processed: a `with
\* self.counter_lock:` block that is open is left, which releases the lock,
\* and the `except Exception` of the loop body logs; the loop goes on.
HRaise(t) ==
    /\ h[t].pc \in RaisePoints
    /\ h' = [h EXCEPT ![t] = HLoop(t)]
    /\ counter_lock' = Released(t)
    /\ raised' = raised \cup {[msg |-> h[t].msg, at |-> h[t].pc,
                               rest |-> h[t].batch, inlock |-> h[t].inlock]}
    /\ UNCHANGED <<a2, lookups, created, unnotified, mon_ticks>>
    /\ UNCHANGED <<smtp_client, watch, active, email_counter, last_reset_date,
                   pending_approvals, students, config, ledger, today, mail,
                   r, a, sent, ghosts>>

\* One step of handle_new_emails in thread t, the classifier answering
\* from `results` and the response generator from `texts`.
Handle(t, results, texts) ==
    \/ HNext(t) \/ HKbGet(t) \/ HKbAdd(t) \/ HCache(t)
    \/ HClassify(t, results)
    \/ HLock(t) \/ HCheck(t) \/ HInc(t)
    \/ HGen(t, texts) \/ HSend(t) \/ HUpdate(t)
    \/ QAppend(t, texts) \/ QNotify(t)

\* ------------------------------------------------- direct callers, INBOX
\* The next message to appear, if any is left.
Fresh == {m \in Msgs : inbox[m] = 0 /\ m \notin direct}

NextFresh == CHOOSE m \in Fresh : \A n \in Fresh : m <= n

\* handle_new_emails called directly by thread t with a batch of the next
\* one or two messages, while fewer than `limit` messages were handed in.
ExtCall(t, limit) ==
    /\ h[t].pc = "idle"
    /\ Fresh # {}
    /\ \E n \in 1..2 :
         LET b == [i \in 1..n |-> NextFresh + i - 1]
         IN /\ \A i \in 1..n : b[i] \in Fresh
            /\ handed + n <= limit
            /\ h' = [h EXCEPT ![t].pc = "next", ![t].batch = b]
            /\ handed' = handed + n
            /\ direct' = direct \cup {b[i] : i \in 1..n}
    /\ UNCHANGED <<a2, notes>>
    /\ UNCHANGED <<smtp_client, watch, coord, config, ledger, today, mail, r, a, sent, qlog, rlog,
                   processed, enqueued, resolved, ncalls>>

\* The next message arrives in the INBOX, dated today.
Arrive(limit) ==
    /\ Fresh # {}
    /\ NextFresh <= limit
    /\ inbox' = [inbox EXCEPT ![NextFresh] = today]
    /\ UNCHANGED <<a2, notes>>
    /\ UNCHANGED <<smtp_client, watch, coord, config, ledger, today, last_check_date, mon_alive,
                   stop_monitoring, h, r, a, sent, ghosts>>

\* The calendar day changes.
Midnight ==
    /\ today < MaxDay
    /\ today' = today + 1
    /\ UNCHANGED <<a2, notes>>
    /\ UNCHANGED <<smtp_client, watch, coord, config, ledger, mail, h, r, a, sent, ghosts>>

\* ------------------------------------------------- EmailService monitoring
\* IMAP `SINCE <date of last_check_time>`: every message of that day or later.
SearchSince(d) == {m \in Msgs : inbox[m] # 0 /\ inbox[m] >= d}

\* The body of one tick of _monitoring_loop: fetch_new_emails, then the
\* callback.  A failed connect or search returns nothing and keeps
\* last_check_time; a search that worked moves it, and every message whose
\* fetch worked is in the batch.
MonFetch(limit) ==
    /\ mon_alive /\ ~stop_monitoring
    /\ h["mon"].pc = "idle"
    /\ \E ok \in BOOLEAN :
         IF ok
         THEN /\ last_check_date' = today
              /\ \E got \in SUBSET SearchSince(last_check_date) :
                   /\ handed + Cardinality(got) <= limit
                   /\ handed' = handed + Cardinality(got)
                   /\ h' = [h EXCEPT !["mon"].batch = Ascending(got),
                                     !["mon"].pc = IF got = {} THEN "idle"
                                                   ELSE "next"]
         ELSE UNCHANGED <<last_check_date, handed, h>>
    /\ UNCHANGED <<a2, lookups, created, raised, unnotified>>
    /\ UNCHANGED <<smtp_client, watch, coord, config, ledger, today, inbox, mon_alive,
                   stop_monitoring, r, a, sent, qlog, rlog, processed,
                   enqueued, resolved, ncalls, direct>>

\* One tick of _monitoring_loop.
MonTick(limit) == MonFetch(limit) /\ UNCHANGED mon_ticks

\* One tick, counted.
MonTickCounted(limit) == MonFetch(limit) /\ mon_ticks' = 1 - mon_ticks

\* A tick in which an error is raised inside the loop's try block, before
\* anything was fetched: the `except Exception` of the loop is entered.
MonRaise ==
    /\ mon_alive /\ ~stop_monitoring
    /\ h["mon"].pc = "idle"
    /\ h' = [h EXCEPT !["mon"].pc = "except"]
    /\ mon_ticks' = 1 - mon_ticks
    /\ raised' = raised \cup {[msg |-> 0, at |-> "tick", rest |-> <<>>,
                               inlock |-> FALSE]}
    /\ UNCHANGED <<a2, lookups, created, unnotified>>
    /\ UNCHANGED <<smtp_client, watch, coord, config, ledger, today, mail, r,
                   a, sent, ghosts>>

\* An error that ends the monitoring thread.
MonRecover_Dies ==
    /\ h["mon"].pc = "except"
    /\ h' = [h EXCEPT !["mon"].pc = "idle"]
    /\ mon_alive' = FALSE
    /\ UNCHANGED <<a2, notes>>
    /\ UNCHANGED <<smtp_client, watch, coord, config, ledger, today, inbox,
                   last_check_date, stop_monitoring, r, a, sent, ghosts>>

\* The loop's except clause logs the error, and the loop goes to its sleep.
MonRecover ==
    /\ h["mon"].pc = "except"
    /\ h' = [h EXCEPT !["mon"].pc = "idle"]
    /\ UNCHANGED <<a2, notes>>
    /\ UNCHANGED <<smtp_client, watch, coord, config, ledger, today, mail, r,
                   a, sent, ghosts>>

\* _monitoring_loop sees the event set after its sleep and ends.
MonExit ==
    /\ mon_alive /\ stop_monitoring
    /\ h["mon"].pc = "idle"
    /\ mon_alive' = FALSE
    /\ UNCHANGED <<a2, notes>>
    /\ UNCHANGED <<smtp_client, watch, coord, config, ledger, today, inbox, last_check_date,
                   stop_monitoring, h, r, a, sent, ghosts>>

\* -------------------------------------------------------- start and stop
\* start() without its test of self.active.
Start_Unguarded ==
    /\ \E t \in Resetters : r[t].pc = "none"
    /\ active' = TRUE
    /\ IF mon_alive
       THEN UNCHANGED <<mon_alive, stop_monitoring>>
       ELSE mon_alive' = TRUE /\ stop_monitoring' = FALSE
    /\ LET t == CHOOSE x \in Resetters : r[x].pc = "none"
       IN r' = [r EXCEPT ![t].pc = "top"]
    /\ life' = IF active THEN "start_noop" ELSE "start"
    /\ UNCHANGED <<a2, notes>>
    /\ UNCHANGED <<smtp_client, failed, email_counter, last_reset_date,
                   pending_approvals, students, counter_lock, config, ledger,
                   today, inbox, last_check_date, h, a, sent, ghosts>>

\* start(): nothing when active; else start_monitoring (nothing when the
\* thread is alive) and a new _reset_counter_daily thread.
Start ==
    /\ IF active
       THEN /\ UNCHANGED <<active, mon_alive, stop_monitoring, r>>
            /\ life' = "start_noop"
       ELSE /\ \E t \in Resetters : r[t].pc = "none"
            /\ active' = TRUE
            /\ IF mon_alive
               THEN UNCHANGED <<mon_alive, stop_monitoring>>
               ELSE mon_alive' = TRUE /\ stop_monitoring' = FALSE
            /\ LET t == CHOOSE x \in Resetters : r[x].pc = "none"
               IN r' = [r EXCEPT ![t].pc = "top"]
            /\ life' = "start"
    /\ UNCHANGED <<a2, notes>>
    /\ UNCHANGED <<smtp_client, failed, email_counter, last_reset_date,
                   pending_approvals, students, counter_lock, config, ledger,
                   today, inbox, last_check_date, h, a, sent, ghosts>>

\* stop() that also empties the approval queue.
Stop_ClearsQueue ==
    /\ IF ~active
       THEN /\ UNCHANGED <<active, stop_monitoring, smtp_client,
                           pending_approvals>>
            /\ life' = "stop_noop"
       ELSE /\ active' = FALSE
            /\ stop_monitoring' = IF mon_alive THEN TRUE ELSE stop_monitoring
            /\ smtp_client' = FALSE
            /\ pending_approvals' = <<>>
            /\ life' = "stop"
    /\ UNCHANGED <<a2, notes>>
    /\ UNCHANGED <<failed, email_counter, last_reset_date, students,
                   counter_lock, config, ledger, today, inbox, last_check_date,
                   mon_alive, h, r, a, sent, ghosts>>

\* stop(): nothing when inactive; else stop_monitoring_emails (the event is
\* set when the thread is alive; the join gives up after 10 s) and
\* disconnect, which drops the clients whatever is using them.
Stop ==
    /\ IF ~active
       THEN /\ UNCHANGED <<active, stop_monitoring, smtp_client>>
            /\ life' = "stop_noop"
       ELSE /\ active' = FALSE
            /\ stop_monitoring' = IF mon_alive THEN TRUE ELSE stop_monitoring
            /\ smtp_client' = FALSE
            /\ life' = "stop"
    /\ UNCHANGED <<a2, notes>>
    /\ UNCHANGED <<failed, email_counter, last_reset_date, pending_approvals,
                   students, counter_lock, config, ledger, today, inbox,
                   last_check_date, mon_alive, h, r, a, sent, ghosts>>

\* --------------------------------------------------- _reset_counter_daily
\* `while self.active:` and current_date = datetime.now().date().
RTop(t) ==
    /\ r[t].pc = "top"
    /\ r' = [r EXCEPT ![t] = IF active THEN [pc |-> "cmp", cur |-> today]
                             ELSE RNone]
    /\ UNCHANGED <<a2, notes>>
    /\ UNCHANGED <<smtp_client, watch, coord, config, ledger, today, mail, h, a, sent, ghosts>>

\* `if current_date != self.last_reset_date:`, read without the lock.
RCompare(t) ==
    /\ r[t].pc = "cmp"
    /\ r' = [r EXCEPT ![t] = IF r[t].cur # last_reset_date
                             THEN [r[t] EXCEPT !.pc = "lock"]
                             ELSE [pc |-> "top", cur |-> 0]]
    /\ UNCHANGED <<a2, notes>>
    /\ UNCHANGED <<smtp_client, watch, coord, config, ledger, today, mail, h, a, sent, ghosts>>

\* The reset going on without the lock.
RLock_Unlocked(t) ==
    /\ r[t].pc = "lock"
    /\ r' = [r EXCEPT ![t].pc = "zero"]
    /\ UNCHANGED <<a2, notes>>
    /\ UNCHANGED <<smtp_client, watch, coord, config, ledger, today, mail, h,
                   a, sent, ghosts>>

\* `with self.counter_lock:` entered.
RLock(t) ==
    /\ r[t].pc = "lock"
    /\ LockAvailable
    /\ counter_lock' = t
    /\ r' = [r EXCEPT ![t].pc = "zero"]
    /\ UNCHANGED <<a2, notes>>
    /\ UNCHANGED <<smtp_client, watch, active, email_counter, last_reset_date, pending_approvals,
                   students, config, ledger, today, mail, h, a, sent, ghosts>>

\* The counter is set to 0, the date is kept, the lock is left; then sleep.
RZero(t) ==
    /\ r[t].pc = "zero"
    /\ email_counter' = 0
    /\ last_reset_date' = r[t].cur
    /\ counter_lock' = Free
    /\ rlog' = Append(rlog, r[t].cur)
    /\ r' = [r EXCEPT ![t] = [pc |-> "top", cur |-> 0]]
    /\ UNCHANGED <<a2, notes>>
    /\ UNCHANGED <<smtp_client, watch, active, pending_approvals, students, config, ledger, today,
                   mail, h, a, sent, qlog, processed, handed, enqueued,
                   resolved, ncalls, direct>>

Reset(t) == RTop(t) \/ RCompare(t) \/ RLock(t) \/ RZero(t)

\* An error is raised inside the try block of _reset_counter_daily, before
\* the comparison or inside `with self.counter_lock:` (which releases the
\* lock): the `except Exception` of the loop is entered.
RFail(t) ==
    /\ r[t].pc \in {"cmp", "zero"}
    /\ r' = [r EXCEPT ![t] = [pc |-> "except", cur |-> 0]]
    /\ counter_lock' = IF counter_lock = t THEN Free ELSE counter_lock
    /\ UNCHANGED <<a2, notes>>
    /\ UNCHANGED <<smtp_client, watch, active, email_counter, last_reset_date,
                   pending_approvals, students, config, ledger, today, mail,
                   h, a, sent, ghosts>>

\* The except clause logs the error, and the loop goes to its sleep.
RRecover(t) ==
    /\ r[t].pc = "except"
    /\ r' = [r EXCEPT ![t].pc = "top"]
    /\ UNCHANGED <<a2, notes>>
    /\ UNCHANGED <<smtp_client, watch, coord, config, ledger, today, mail, h,
                   a, sent, ghosts>>

\* ------------------------------------------------------ approve_response
\* The call, the range test on approval_id, the item and the text to send.
\* Ids are Python's list indices, from 0.
ACall(revs) ==
    /\ a.pc = "idle"
    /\ ncalls < MaxApproveCalls
    /\ ncalls' = ncalls + 1
    /\ \E id \in (0 - 1)..Len(pending_approvals), rev \in revs :
         IF id < 0 \/ id >= Len(pending_approvals)
         THEN a' = [AIdle EXCEPT !.id = id, !.rev = rev, !.result = "false"]
         ELSE LET item == pending_approvals[id + 1]
              IN a' = [pc |-> "send", id |-> id, rev |-> rev, item |-> item,
                       resp |-> ChooseResponse(rev, item.draft_response),
                       result |-> "none"]
    /\ UNCHANGED <<a2, notes>>
    /\ UNCHANGED <<smtp_client, watch, coord, config, ledger, today, mail, h, r, sent, qlog, rlog,
                   processed, handed, enqueued, resolved, direct>>

\* An approved send that takes a slot of the daily quota.
ASend_Counts ==
    /\ a.pc = "send"
    /\ IF a.resp = None
       THEN /\ a' = [a EXCEPT !.pc = "idle", !.result = "raised"]
            /\ UNCHANGED <<sent, smtp_client, email_counter>>
       ELSE \E ok \in BOOLEAN :
              IF ok
              THEN /\ sent' = Append(sent, [to |-> Sender(a.item.email),
                                            msg |-> a.item.email,
                                            text |-> a.resp,
                                            stu |-> a.item.student,
                                            via |-> "approve"])
                   /\ a' = [a EXCEPT !.pc = "upd"]
                   /\ smtp_client' = TRUE
                   /\ email_counter' = email_counter + 1
              ELSE /\ sent' = sent
                   /\ a' = [a EXCEPT !.pc = "idle", !.result = "false"]
                   /\ smtp_client' \in BOOLEAN
                   /\ email_counter' = email_counter
    /\ UNCHANGED <<a2, notes>>
    /\ UNCHANGED <<watch, active, last_reset_date, pending_approvals,
                   students, counter_lock, config, ledger, today, mail, h, r,
                   ghosts>>

\* send_response returns, or raises on `None + "\n\n"`.
ASend ==
    /\ a.pc = "send"
    /\ IF a.resp = None
       THEN /\ a' = [a EXCEPT !.pc = "idle", !.result = "raised"]
            /\ UNCHANGED <<sent, smtp_client>>
       ELSE \E ok \in BOOLEAN :
              IF ok
              THEN /\ sent' = Append(sent, [to |-> Sender(a.item.email),
                                            msg |-> a.item.email,
                                            text |-> a.resp,
                                            stu |-> a.item.student,
                                            via |-> "approve"])
                   /\ a' = [a EXCEPT !.pc = "upd"]
                   /\ smtp_client' = TRUE
              ELSE /\ sent' = sent
                   /\ a' = [a EXCEPT !.pc = "idle", !.result = "false"]
                   /\ smtp_client' \in BOOLEAN
    /\ UNCHANGED <<a2, notes>>
    /\ UNCHANGED <<watch, coord, config, ledger, today, mail, h, r, ghosts>>

\* student.update_conversation and knowledge_base.update_student.
AUpdate ==
    /\ a.pc = "upd"
    /\ hist' = [hist EXCEPT ![a.item.student] =
                  UpdateConversation(@, a.item.email, a.resp, a.item.intent)]
    /\ kb' = KbStore(kb, Sender(a.item.email), hist'[a.item.student])
    /\ a' = [a EXCEPT !.pc = "pop"]
    /\ UNCHANGED <<a2, notes>>
    /\ UNCHANGED <<smtp_client, watch, coord, config, today, mail, h, r, sent, ghosts>>

\* self.pending_approvals.pop(approval_id), and True is returned.
APop ==
    /\ a.pc = "pop"
    /\ IF a.id < Len(pending_approvals)
       THEN /\ pending_approvals' = RemoveAt(pending_approvals, a.id + 1)
            /\ resolved' = resolved \cup {a.id}
            /\ a' = [a EXCEPT !.pc = "idle", !.result = "true"]
       ELSE /\ UNCHANGED <<pending_approvals, resolved>>
            /\ a' = [a EXCEPT !.pc = "idle", !.result = "raised"]
    /\ UNCHANGED <<a2, notes>>
    /\ UNCHANGED <<smtp_client, watch, active, email_counter, last_reset_date, students,
                   counter_lock, config, ledger, today, mail, h, r, sent, qlog,
                   rlog, processed, handed, enqueued, ncalls, direct>>

Approve(revs) == ACall(revs) \/ ASend \/ AUpdate \/ APop

\* approve_response called by a second thread while the first call may be
\* under way: the same statements, on that call's own locals.  Nothing in
\* approve_response takes a lock.
A2Call(revs) ==
    /\ a2.pc = "idle"
    /\ ncalls < MaxApproveCalls
    /\ ncalls' = ncalls + 1
    /\ \E id \in (0 - 1)..Len(pending_approvals), rev \in revs :
         IF id < 0 \/ id >= Len(pending_approvals)
         THEN a2' = [AIdle EXCEPT !.id = id, !.rev = rev, !.result = "false"]
         ELSE LET item == pending_approvals[id + 1]
              IN a2' = [pc |-> "send", id |-> id, rev |-> rev, item |-> item,
                        resp |-> ChooseResponse(rev, item.draft_response),
                        result |-> "none"]
    /\ UNCHANGED <<a, notes, smtp_client, watch, coord, config, ledger, today,
                   mail, h, r, sent, qlog, rlog, processed, handed, enqueued,
                   resolved, direct>>

A2Send ==
    /\ a2.pc = "send"
    /\ IF a2.resp = None
       THEN /\ a2' = [a2 EXCEPT !.pc = "idle", !.result = "raised"]
            /\ UNCHANGED <<sent, smtp_client>>
       ELSE \E ok \in BOOLEAN :
              IF ok
              THEN /\ sent' = Append(sent, [to |-> Sender(a2.item.email),
                                            msg |-> a2.item.email,
                                            text |-> a2.resp,
                                            stu |-> a2.item.student,
                                            via |-> "approve"])
                   /\ a2' = [a2 EXCEPT !.pc = "upd"]
                   /\ smtp_client' = TRUE
              ELSE /\ sent' = sent
                   /\ a2' = [a2 EXCEPT !.pc = "idle", !.result = "false"]
                   /\ smtp_client' \in BOOLEAN
    /\ UNCHANGED <<a, notes, watch, coord, config, ledger, today, mail, h, r,
                   ghosts>>

A2Update ==
    /\ a2.pc = "upd"
    /\ hist' = [hist EXCEPT ![a2.item.student] =
                  UpdateConversation(@, a2.item.email, a2.resp, a2.item.intent)]
    /\ kb' = KbStore(kb, Sender(a2.item.email), hist'[a2.item.student])
    /\ a2' = [a2 EXCEPT !.pc = "pop"]
    /\ UNCHANGED <<a, notes, smtp_client, watch, coord, config, today, mail, h,
                   r, sent, ghosts>>

A2Pop ==
    /\ a2.pc = "pop"
    /\ IF a2.id < Len(pending_approvals)
       THEN /\ pending_approvals' = RemoveAt(pending_approvals, a2.id + 1)
            /\ resolved' = resolved \cup {a2.id}
            /\ a2' = [a2 EXCEPT !.pc = "idle", !.result = "true"]
       ELSE /\ UNCHANGED <<pending_approvals, resolved>>
            /\ a2' = [a2 EXCEPT !.pc = "idle", !.result = "raised"]
    /\ UNCHANGED <<a, notes, smtp_client, watch, active, email_counter,
                   last_reset_date, students, counter_lock, config, ledger,
                   today, mail, h, r, sent, qlog, rlog, processed, handed,
                   enqueued, ncalls, direct>>

Approve2(revs) == A2Call(revs) \/ A2Send \/ A2Update \/ A2Pop

\* ------------------------------------------------------------ behaviours
\* The knowledge store at the start: student a is known, student b is not.
KbAtStart ==
    [e \in StudentEmails |-> [known |-> e = "a@university.edu", hist |-> <<>>]]

InitQuota ==
    /\ Init
    /\ ~require_approval
    /\ approval_email
    /\ kb = KbAtStart

QuotaResults ==
    {Says("assignment_question", 100), Says("personal_circumstance", 100)}

QuotaTexts == {None, "draft"}

\* Race scenario: two direct callers of handle_new_emails working
\* concurrently.
RaceDeliveries == 3

NextRace ==
    \/ \E t \in Callers : Handle(t, QuotaResults, QuotaTexts)
    \/ \E t \in Callers : ExtCall(t, RaceDeliveries)

SpecRace == InitQuota /\ [][NextRace]_vars

\* Reset scenario: start() and stop() in turn at any time, so that a reset
\* thread of an earlier start() may still run, one direct caller, and the
\* calendar.
ResetDeliveries == 3

NextReset ==
    \/ Handle("c1", QuotaResults, QuotaTexts)
    \/ ExtCall("c1", ResetDeliveries)
    \/ \E t \in Resetters : Reset(t)
    \/ Midnight
    \/ ~active /\ Start
    \/ active /\ Stop

SpecReset == InitQuota /\ [][NextReset]_vars

\* Routing scenario: one direct caller, the classifier answering with any
\* intent and confidence, with and without require_approval.
RouteDeliveries == 4

RouteTexts == {"draft"}

InitRoute ==
    /\ Init
    /\ kb = KbAtStart

NextRoute ==
    \/ Handle("c1", ClassifyResults, RouteTexts)
    \/ ExtCall("c1", RouteDeliveries)

SpecRoute == InitRoute /\ [][NextRoute]_vars

\* Approval scenario: one direct caller and the operator's approve calls.
ApproveDeliveries == 3

ApproveTexts == {None, "draft"}

InitApprove ==
    /\ Init
    /\ approval_email
    /\ kb = KbAtStart

NextApprove ==
    \/ Handle("c1", QuotaResults, ApproveTexts)
    \/ ExtCall("c1", ApproveDeliveries)
    \/ Approve(RevTexts)

SpecApprove == InitApprove /\ [][NextApprove]_vars

\* Classifier scenario: one direct caller, the classifier failing or
\* answering texts its parser rejects, clamps or replaces.
ClassifyDeliveries == 3

ClassifyOutcomes ==
    {Raises, Says("other", 100), Says("grade_inquiry", 150),
     Says("personal_matter", 100), Says(Absent, 100),
     Garbled(Absent), Garbled("grade_inquiry"), Garbled("personal_matter"),
     Garbled("assignment_question")}

NextClassify ==
    \/ Handle("c1", ClassifyOutcomes, RouteTexts)
    \/ ExtCall("c1", ClassifyDeliveries)

SpecClassify == InitRoute /\ [][NextClassify]_vars

\* Lifecycle scenario: start() and stop() called at any time, also when
\* they have nothing to do, while one direct caller and the operator are at
\* work and the reset threads sleep.
LifeDeliveries == 2

LifeRevs == {None}

NextLifecycle ==
    \/ Handle("c1", QuotaResults, RouteTexts)
    \/ ExtCall("c1", LifeDeliveries)
    \/ Approve(LifeRevs)
    \/ MonExit
    \/ Start
    \/ Stop

SpecLifecycle == InitQuota /\ [][NextLifecycle]_vars

\* Restart scenario: stop() is called when items are pending, start() when
\* the coordinator is stopped, and the operator approves only after such a
\* stop and start (the event set by stop() stays set in this scenario, its
\* monitoring thread being asleep).
RestartDeliveries == 2

NextRestart ==
    \/ Handle("c1", QuotaResults, RouteTexts)
    \/ ExtCall("c1", RestartDeliveries)
    \/ active /\ stop_monitoring /\ Approve(LifeRevs)
    \/ ~active /\ Start
    \/ active /\ pending_approvals # <<>> /\ Stop

SpecRestart == InitQuota /\ [][NextRestart]_vars

\* Operators scenario: one direct caller queues messages while two threads
\* call approve_response, each at any time.
OperatorDeliveries == 2

NextOperators ==
    \/ Handle("c1", QuotaResults, RouteTexts)
    \/ ExtCall("c1", OperatorDeliveries)
    \/ Approve(LifeRevs)
    \/ Approve2(LifeRevs)

SpecOperators == InitApprove /\ [][NextOperators]_vars

\* First-contact scenario: the knowledge store knows nobody, and two direct
\* callers handle messages of the same senders concurrently.
FirstDeliveries == 3

InitFirst ==
    /\ Init
    /\ ~require_approval
    /\ approval_email
    /\ kb = [e \in StudentEmails |-> [known |-> FALSE, hist |-> <<>>]]

NextFirst ==
    \/ \E t \in Callers : Handle(t, QuotaResults, RouteTexts)
    \/ \E t \in Callers : ExtCall(t, FirstDeliveries)

SpecFirst == InitFirst /\ [][NextFirst]_vars

\* Failure scenario: one direct caller, and any call made for a message may
\* raise.
FailureDeliveries == 3

NextFailure ==
    \/ Handle("c1", QuotaResults, RouteTexts)
    \/ HRaise("c1")
    \/ ExtCall("c1", FailureDeliveries)

SpecFailure == InitApprove /\ [][NextFailure]_vars

\* Timers scenario: the program as main.py runs it, over one day, with one
\* start() and then one stop(), the knowledge store empty at first; ticks
\* of the monitoring loop and of the reset loop may raise.  Each loop's
\* sleep ends and each thread gets to run: weak fairness of the steps of
\* the monitoring thread and of every reset thread.
TimerDeliveries == 2

TimerArrivals == 1

MonLoop ==
    \/ Handle("mon", QuotaResults, RouteTexts)
    \/ MonTickCounted(TimerDeliveries)
    \/ MonRaise
    \/ MonRecover
    \/ MonExit

ResetLoop(t) == RTop(t) \/ RCompare(t) \/ RFail(t) \/ RRecover(t)

NextTimers ==
    \/ MonLoop
    \/ \E t \in Resetters : ResetLoop(t)
    \/ Arrive(TimerArrivals)
    \/ ~active /\ life = "none" /\ Start
    \/ active /\ Stop

SpecTimers ==
    /\ InitFirst
    /\ [][NextTimers]_vars
    /\ WF_vars(MonLoop)
    /\ \A t \in Resetters : WF_vars(ResetLoop(t))

\* Notification scenario: a review address is configured, one direct caller
\* queues messages, the notification is sent or not, and the operator
\* approves.
NotifyDeliveries == 2

NextNotify ==
    \/ HandleNoted("c1", QuotaResults, RouteTexts)
    \/ ExtCall("c1", NotifyDeliveries)
    \/ Approve(LifeRevs)

SpecNotify == InitApprove /\ [][NextNotify]_vars

\* Outcome scenario: one direct caller; the response generator may answer
\* nothing, a send may be refused, and any call made for a message may
\* raise.  Nobody approves, so that an item stays where it was put.
OutcomeDeliveries == 3

NextOutcome ==
    \/ Handle("c1", QuotaResults, ApproveTexts)
    \/ HRaise("c1")
    \/ ExtCall("c1", OutcomeDeliveries)

SpecOutcome == InitApprove /\ [][NextOutcome]_vars

\* Sender scenario: one direct caller handles the messages of every kind of
\* sender: of the student domain, of another domain, and of a domain whose
\* name holds the text of the student domain.
SenderDeliveries == 6

NextSender ==
    \/ Handle("c1", QuotaResults, RouteTexts)
    \/ ExtCall("c1", SenderDeliveries)

SpecSender == InitQuota /\ [][NextSender]_vars

\* Counter scenario: after start(), two direct callers handle messages
\* concurrently while the daily-reset thread ticks and the calendar moves.
CounterDeliveries == 3

CounterResults == {Says("assignment_question", 100)}

NextCounter ==
    \/ \E t \in Callers : Handle(t, CounterResults, RouteTexts)
    \/ active /\ \E t \in Callers : ExtCall(t, CounterDeliveries)
    \/ \E t \in Resetters : Reset(t)
    \/ Midnight
    \/ ~active /\ Start

SpecCounter == InitQuota /\ [][NextCounter]_vars

\* Monitoring scenario: the monitoring thread polls the INBOX between
\* start() and stop(), messages arrive, and the calendar moves.
MonitorDeliveries == 2

MonitorArrivals == 2

NextMonitor ==
    \/ Handle("mon", QuotaResults, QuotaTexts)
    \/ MonTick(MonitorDeliveries)
    \/ MonExit
    \/ Arrive(MonitorArrivals)
    \/ \E t \in Resetters : Reset(t)
    \/ Midnight
    \/ ~active /\ Start
    \/ active /\ Stop

SpecMonitor == InitQuota /\ [][NextMonitor]_vars

\* ---------------------------------------------------------------- claims
\* The handler t is on the auto-respond path: it passed the quota check.
InAuto(t) == h[t].pc \in {"inc", "gen", "send", "upd"}

\* C1.  Quota invariant: the quota checks passed on one calendar day, the
\* day being the date at the moment of the check, never number more than
\* max_emails_per_day.
C1_QuotaPerDay ==
    \A d \in Days :
      Cardinality({i \in 1..Len(qlog) : qlog[i].day = d /\ qlog[i].ok})
        <= MaxEmailsPerDay

\* C2.  Two handlers that are both past the check-and-increment with no
\* reset between their checks took different slots below the cap: when one
\* slot is left, they never both take the auto-respond path.
C2_LastSlotOnce ==
    \A t1 \in Handlers, t2 \in Handlers :
      (t1 # t2 /\ InAuto(t1) /\ InAuto(t2) /\ h[t1].epoch = h[t2].epoch)
        => /\ h[t1].slot # h[t2].slot
           /\ h[t1].slot < MaxEmailsPerDay
           /\ h[t2].slot < MaxEmailsPerDay

\* One handler took the last slot and is still at work; the other one,
\* which came to the check meanwhile, was refused and is queueing.
C2_Witness ==
    \E t1 \in Handlers, t2 \in Handlers :
      /\ t1 # t2
      /\ InAuto(t1) /\ h[t1].slot = MaxEmailsPerDay - 1
      /\ h[t1].epoch = Len(rlog)
      /\ h[t2].pc = "q_gen" /\ h[t2].inlock

\* The decision table of the claim C3.
C3_Queue(intent, conf, counter, flag) ==
    \/ counter >= MaxEmailsPerDay
    \/ flag
    \/ intent = "personal_circumstance"
    \/ intent = "grade_inquiry" /\ conf < ConfidenceThreshold

\* C3.  Routing decision table: a message goes to _queue_for_approval
\* exactly when the counter is at the cap, or require_approval is set, or
\* the intent is personal_circumstance, or it is grade_inquiry with a
\* confidence below the threshold; otherwise it is auto-responded.  The
\* route is decided when the classifier has answered (review by intent) or
\* at the test under the lock (everything else).
C3_RoutingTable ==
    [][\A t \in Handlers :
         /\ (h[t].pc = "classify" /\ h'[t].pc # "classify")
              => /\ h'[t].pc \in {"q_gen", "lock"}
                 /\ h'[t].pc = "q_gen"
                      => C3_Queue(h'[t].intent, h'[t].conf, email_counter,
                                  require_approval)
                 /\ h'[t].pc = "lock"
                      => \A c \in 0..MaxEmailsPerDay - 1 :
                           ~C3_Queue(h'[t].intent, h'[t].conf, c, FALSE)
         /\ (h[t].pc = "check" /\ h'[t].pc # "check")
              => /\ h'[t].pc \in {"q_gen", "inc"}
                 /\ h'[t].pc = "q_gen"
                      <=> C3_Queue(h[t].intent, h[t].conf, email_counter,
                                   require_approval)
       ]_vars

\* A grade inquiry with a confidence equal to the threshold passed the
\* quota check and is auto-responded.
C3_Witness ==
    \E t \in Handlers :
      /\ h[t].pc = "inc"
      /\ h[t].intent = "grade_inquiry"
      /\ h[t].conf = ConfidenceThreshold

\* C4.  At-most-once processing: a message is classified and routed at most
\* once, however many batches it is delivered in.
C4_AtMostOnce == \A m \in Msgs : processed[m] <= 1

\* C5.  Approval identifier stability: an id whose item was approved never
\* again addresses a pending item, and no later approve of it gets to send.
C5_IdStable ==
    \A k \in resolved :
      /\ k >= Len(pending_approvals)
      /\ ~(a.pc \in {"send", "upd", "pop"} /\ a.id = k)

\* The replies the transport accepted for the Student object o.
SendsTo(o) ==
    Cardinality({i \in 1..Len(sent) : sent[i].stu = o})

\* The threads whose send for the Student object o was accepted and whose
\* update_conversation is still to come.
AppendsToCome(o) ==
    Cardinality({t \in Handlers : h[t].pc = "upd" /\ h[t].stu = o})
      + (IF a.pc = "upd" /\ a.item.student = o THEN 1 ELSE 0)

\* Every accepted reply is in the history of its student, or about to be.
C6_Recorded ==
    \A o \in 1..Len(hist) : Len(hist[o]) + AppendsToCome(o) = SendsTo(o)

\* The step appends to the history of o the entry of a reply that was sent
\* for message m with the text `text`, and hands the student to the store.
C6_Appends(o, m, text, intent) ==
    /\ hist'[o] = Append(hist[o], [msg |-> m, response |-> text,
                                   intent |-> intent])
    /\ \E i \in 1..Len(sent) :
         sent[i].stu = o /\ sent[i].msg = m /\ sent[i].text = text
    /\ kb'[Sender(m)] = [known |-> TRUE, hist |-> hist'[o]]

\* C6.  Ledger append-only: after every accepted reply, on the auto-respond
\* path and on the approve path, the student's conversation_history is one
\* entry longer, the new last entry holds the text that was sent, and the
\* student was handed to the knowledge store; no other step changes a
\* history.
C6_LedgerAppendOnly ==
    [][/\ C6_Recorded'
       /\ \A o \in 1..Len(hist) :
            \/ hist'[o] = hist[o]
            \/ \E t \in Handlers :
                 /\ h[t].pc = "upd" /\ h[t].stu = o /\ h'[t].pc # "upd"
                 /\ C6_Appends(o, h[t].msg, h[t].resp, h[t].intent)
            \/ /\ a.pc = "upd" /\ a.item.student = o /\ a'.pc # "upd"
               /\ C6_Appends(o, a.item.email, a.resp, a.item.intent)
      ]_vars

\* One student got an auto-response and an approved response, and both are
\* in the history and in the store.
C6_Witness ==
    \E i \in 1..Len(sent), j \in 1..Len(sent) :
      /\ sent[i].via = "auto" /\ sent[j].via = "approve"
      /\ sent[i].stu = sent[j].stu
      /\ Len(hist[sent[i].stu]) = 2
      /\ kb[sent[i].to].hist = hist[sent[i].stu]

\* Message m is in the approval queue, or its handler is appending it.
QueuedOrQueuing(m) ==
    \/ \E i \in 1..Len(pending_approvals) : pending_approvals[i].email = m
    \/ \E t \in Handlers : h[t].msg = m /\ h[t].pc = "q_gen"

\* C7.  Scenario A generalised: with require_approval off and no reset, of
\* the messages that come to the quota check one after another the first
\* max_emails_per_day pass it and are auto-responded, and each later one is
\* refused and queued for approval.
C7_FirstNThenQueued ==
    (~require_approval /\ rlog = <<>>)
      => \A i \in 1..Len(qlog) :
           /\ qlog[i].ok <=> i <= MaxEmailsPerDay
           /\ ~qlog[i].ok => QueuedOrQueuing(qlog[i].msg)
           /\ qlog[i].ok =>
                ~\E k \in 1..Len(pending_approvals) :
                    pending_approvals[k].email = qlog[i].msg

\* The message after the cap was refused and is in the approval queue.
C7_Witness ==
    /\ ~require_approval
    /\ Len(qlog) = MaxEmailsPerDay + 1
    /\ \A i \in 1..MaxEmailsPerDay : qlog[i].ok
    /\ ~qlog[MaxEmailsPerDay + 1].ok
    /\ \E k \in 1..Len(pending_approvals) :
         pending_approvals[k].email = qlog[MaxEmailsPerDay + 1].msg

RECURSIVE SumOver(_, _)
SumOver(f, S) ==
    IF S = {} THEN 0
    ELSE LET x == CHOOSE y \in S : TRUE IN f[x] + SumOver(f, S \ {x})

\* C8.  While require_approval is set no message is auto-responded: the
\* counter stays 0, no handler is on the auto-respond path, every reply the
\* transport accepted came from an approve call, and every message that was
\* classified is queued or being queued.
C8_FlagQueuesAll ==
    require_approval
      => /\ email_counter = 0
         /\ \A t \in Handlers : ~InAuto(t)
         /\ \A i \in 1..Len(qlog) : ~qlog[i].ok
         /\ \A i \in 1..Len(sent) : sent[i].via = "approve"
         /\ SumOver(processed, Msgs)
              = enqueued + Cardinality({t \in Handlers :
                                          h[t].pc \in {"lock", "check", "q_gen"}})

\* With the flag set two messages were queued and one reply was sent by an
\* approve call.
C8_Witness ==
    /\ require_approval
    /\ enqueued >= 2
    /\ \E i \in 1..Len(sent) : sent[i].via = "approve"

\* The approve call's send was accepted in this step.
C9_Sends == a.pc = "send" /\ a'.pc = "upd"

\* The approve call records its interaction in this step.
C9_Records == a.pc = "upd" /\ a'.pc = "pop"

\* C9.  Scenario D generalised: whenever approve_response sends, the text
\* sent and then recorded as the interaction's response is the revised text
\* if one was given, and the item's stored draft if none was.
C9_RevisedAlwaysSent ==
    [][LET want == IF a.rev # None THEN a.rev ELSE a.item.draft_response
       IN /\ C9_Sends => Last(sent').text = want
          /\ C9_Records => Last(hist'[a.item.student]).response = want
      ]_vars

\* C10.  Reset idempotence: over the reset ticks that observe one date the
\* counter is set to 0 at most once.
C10_ResetOncePerDate ==
    \A d \in Days : Cardinality({i \in 1..Len(rlog) : rlog[i] = d}) <= 1

\* C11.  approve_response with an identifier that addresses no pending item
\* (negative, beyond the queue, or already resolved) returns failure at once:
\* send_response is not called and nothing but the call's own result
\* changes.
C11_BadIdRejected ==
    [][(a.pc = "idle" /\ ncalls' = ncalls + 1
          /\ (\/ a'.id < 0
              \/ a'.id >= Len(pending_approvals)
              \/ a'.id \in resolved))
         => /\ a'.pc = "idle" /\ a'.result = "false"
            /\ UNCHANGED <<pending_approvals, students, hist, kb,
                           email_counter, sent>>
      ]_vars

\* C12.  When approve_response addresses a pending item and send_response
\* returns False, the call returns failure, no interaction is recorded, and
\* the item is no longer in the pending queue.
C12_FailedSendResolves ==
    [][(a.pc = "send" /\ a'.pc = "idle" /\ a'.result = "false")
         => /\ UNCHANGED <<hist, kb, sent>>
            /\ \A i \in 1..Len(pending_approvals') :
                 pending_approvals'[i] # a.item
      ]_vars

\* C14.  A null answer of the response generator is never sent and never
\* stored as the draft of a pending approval item.
C14_NullNeverQueued ==
    /\ \A i \in 1..Len(sent) : sent[i].text # None
    /\ \A i \in 1..Len(pending_approvals) :
         pending_approvals[i].draft_response # None

\* C20.  Quota fallback: a handler that finds the counter at the cap at the
\* test under the lock goes on to _queue_for_approval, which appends an item
\* for its message, and none of its steps from the test on changes
\* email_counter.
C20_QuotaFallback ==
    [][\A t \in Handlers :
         /\ (h[t].pc = "check" /\ h'[t].pc # "check"
               /\ email_counter >= MaxEmailsPerDay)
              => /\ h'[t].pc = "q_gen" /\ h'[t].msg = h[t].msg
                 /\ email_counter' = email_counter
         /\ (h[t].pc = "q_gen" /\ h'[t].pc # "q_gen")
              => /\ Len(pending_approvals') = Len(pending_approvals) + 1
                 /\ Last(pending_approvals').email = h[t].msg
                 /\ email_counter' = email_counter
         /\ (h[t].pc = "q_notify" /\ h'[t].pc # "q_notify")
              => /\ pending_approvals' = pending_approvals
                 /\ email_counter' = email_counter
      ]_vars

\* One handler took the last slot and is still answering; the other came to
\* the test meanwhile, was refused, and its message is now in the queue.
C20_Witness ==
    \E t1 \in Handlers, t2 \in Handlers :
      /\ t1 # t2
      /\ h[t1].pc \in {"gen", "send"} /\ h[t1].slot = MaxEmailsPerDay - 1
      /\ email_counter = MaxEmailsPerDay
      /\ h[t2].pc = "q_notify"
      /\ \E i \in 1..Len(qlog) : qlog[i].msg = h[t2].msg /\ ~qlog[i].ok
      /\ Last(pending_approvals).email = h[t2].msg

\* C15.  When the classifier fails (the call raises, or its answer does not
\* parse) the message is classified as ("other", 0.0) and goes the normal
\* way: to the tests under the lock, and from there to generate_response and
\* the send or to the approval queue; it is not dropped before.
C15_FailureIsOther ==
    [][\A t \in Handlers :
         /\ (h[t].pc = "classify" /\ h'[t].pc # "classify" /\ h'[t].cfail)
              => /\ h'[t].intent = "other" /\ h'[t].conf = 0
                 /\ h'[t].pc = "lock"
         /\ (h[t].cfail /\ h[t].pc \in {"lock", "check", "inc", "gen", "q_gen"}
               /\ h'[t] # h[t])
              => \/ h'[t].pc \in {"check", "inc", "gen", "send", "q_gen",
                                  "q_notify"}
                 \/ Len(pending_approvals') = Len(pending_approvals) + 1
      ]_vars

\* C13.  On the auto-respond path a message whose send returned False is
\* done with: it has no entry in its sender's history or in the knowledge
\* store, no approval item, and no later send is attempted or made for it.
C13_FailedSendIsFinal ==
    \A m \in failed :
      /\ \A o \in 1..Len(hist) :
           \A i \in 1..Len(hist[o]) : hist[o][i].msg # m
      /\ \A i \in 1..Len(kb[Sender(m)].hist) : kb[Sender(m)].hist[i].msg # m
      /\ \A i \in 1..Len(pending_approvals) : pending_approvals[i].email # m
      /\ \A i \in 1..Len(sent) : sent[i].msg # m
      /\ \A t \in Handlers : ~(h[t].msg = m /\ h[t].pc = "send")

\* The program's own state: everything but the records kept of the run.
program == <<coord, config, ledger, today, mail, smtp_client, h, r, a, a2>>

\* A send_email call returns in this step; it may drop the client itself.
SendReturns ==
    \/ \E t \in Handlers :
         h[t].pc \in {"send", "q_notify"} /\ h'[t].pc # h[t].pc
    \/ a.pc = "send" /\ a'.pc # "send"

\* C16.  Lifecycle idempotence: start() while active changes nothing and
\* creates no monitoring or reset thread; stop() while inactive changes
\* nothing, sets no stop event and drops no connection.
C16_LifecycleIdempotent ==
    [][/\ (life' = "start_noop" /\ life # "start_noop") => UNCHANGED program
       /\ (life' = "stop_noop" /\ life # "stop_noop") => UNCHANGED program
       /\ active
            => /\ \A t \in Resetters : r[t].pc = "none" => r'[t].pc = "none"
               /\ mon_alive' => mon_alive
       /\ ~active
            => /\ stop_monitoring' => stop_monitoring
               /\ (smtp_client /\ ~smtp_client') => SendReturns
      ]_vars

\* start() was called on a running coordinator, with room for one more
\* reset thread, and returned at once.
C16_Witness ==
    /\ life = "start_noop"
    /\ active /\ mon_alive
    /\ \E t \in Resetters : r[t].pc = "none"
    /\ \E t \in Resetters : r[t].pc # "none"

\* C17.  When stop() has returned and until the next start(), neither the
\* daily-reset loop nor the monitoring loop is in the middle of a tick.
C17_StoppedIsQuiet ==
    ~active
      => /\ \A t \in Resetters : r[t].pc \in {"none", "top"}
         /\ h["mon"].pc = "idle"

\* A send to a student or to the approver is in progress.
SendInFlight ==
    \/ \E t \in Handlers : h[t].pc \in {"send", "q_notify"}
    \/ a.pc = "send"

\* C18.  stop() never cancels an in-flight send: its disconnect does not
\* drop the client while a send of a handler or of approve_response is in
\* progress.
C18_StopSparesSends ==
    [][(active /\ ~active' /\ SendInFlight) => (smtp_client => smtp_client')]_vars

\* C19.  stop() leaves the approval queue and the sender cache intact:
\* pending_approvals, students and the conversation histories are the same
\* after it as before.
C19_StopKeepsQueue ==
    [][(life' \in {"stop", "stop_noop"} /\ life' # life)
         => UNCHANGED <<pending_approvals, students, hist, kb>>
      ]_vars

\* The first item, queued before a stop() and start(), was approved by a
\* call made after them.
C19_Witness ==
    /\ a.pc = "idle" /\ a.result = "true"
    /\ a.item.timestamp = 1
    /\ active /\ stop_monitoring

\* The replies sent for message m by approve calls.
ApprovedSends(m) ==
    Cardinality({i \in 1..Len(sent) :
                   sent[i].via = "approve" /\ sent[i].msg = m})

\* The approval items for message m that are pending.
PendingFor(m) ==
    Cardinality({i \in 1..Len(pending_approvals) :
                   pending_approvals[i].email = m})

\* C21.  Approval-queue consistency under concurrency: however approve
\* calls and enqueues interleave, the item of a message is sent at most once
\* by approve calls, and the pop of an approve call removes the item that
\* call read and sent, and no other.
C21_QueueConsistent ==
    [][/\ \A m \in Msgs : ApprovedSends(m)' <= 1
       /\ (a.pc = "pop" /\ a'.pc # "pop")
            => /\ PendingFor(a.item.email) = 1
               /\ PendingFor(a.item.email)' = 0
               /\ Len(pending_approvals') = Len(pending_approvals) - 1
       /\ (a2.pc = "pop" /\ a2'.pc # "pop")
            => /\ PendingFor(a2.item.email) = 1
               /\ PendingFor(a2.item.email)' = 0
               /\ Len(pending_approvals') = Len(pending_approvals) - 1
      ]_vars

\* C22.  No duplicate sender creation: however the _get_or_create_student
\* calls of concurrent handlers interleave, one Student record at most is
\* constructed and added to the store for an email, and every handler works
\* on the record that is cached for its message's sender.
C22_OneRecordPerSender ==
    /\ \A e \in StudentEmails : created[e] <= 1
    /\ \A t \in Handlers :
         (h[t].pc \in {"classify", "lock", "check", "inc", "gen", "send",
                       "upd", "q_gen", "q_notify"})
           => h[t].stu = students[Sender(h[t].msg)]

\* The handler t is inside a call of the knowledge store, the classifier,
\* the response generator or the transport.
InExternalCall(t) ==
    h[t].pc \in {"kbget", "kbadd", "classify", "gen", "send", "upd", "q_gen",
                 "q_notify"}

\* C23.  No lock is held across an external call: a thread that is inside
\* a call of the response generator, the transport, the classifier or the
\* knowledge store does not hold counter_lock.
C23_NoLockAcrossCalls ==
    \A t \in Handlers : InExternalCall(t) => counter_lock # t

\* C24.  Restartability of the monitoring driver: whenever start() has
\* returned on a coordinator that was stopped, however soon after the
\* stop(), the monitoring thread is alive and its stop event is clear, so
\* that the loop goes on polling.
C24_RestartedIsLive ==
    (active /\ life = "start") => (mon_alive /\ ~stop_monitoring)

\* The _reset_counter_daily threads that have not ended.
ResetLoops == {t \in Resetters : r[t].pc # "none"}

\* C25.  Daily-reset lifecycle: at most one reset loop runs at a time,
\* whatever start() and stop() calls were made, and while the coordinator
\* is stopped no loop sets the counter to 0.
C25_OneResetLoop ==
    /\ Cardinality(ResetLoops) <= 1
    /\ ~active => \A t \in Resetters : r[t].pc # "zero"

\* The messages whose processing raised.
RaisedMsgs == {x.msg : x \in raised}

\* C26.  Batch failure isolation: when a call made for one message raises,
\* the handler goes on with the rest of the batch, the other handlers are
\* not touched, and the raising handler does not hold counter_lock
\* afterwards; when all batches are done, every student message handed in
\* was classified and routed, or is one whose processing raised.
C26_FailureIsolated ==
    /\ []((\A t \in Handlers : h[t].pc = "idle")
            => \A m \in direct :
                 IsStudentEmail(m) => (processed[m] >= 1 \/ m \in RaisedMsgs))
    /\ [][\A t \in Handlers :
            (raised' # raised /\ h'[t] # h[t])
              => /\ h'[t].pc = "next"
                 /\ h'[t].batch = h[t].batch
                 /\ counter_lock' # t
                 /\ \A u \in Handlers \ {t} : h'[u] = h[u]
         ]_vars

\* The call of the response generator for the first message of a batch
\* raised under counter_lock, and the next message of the batch went through
\* the lock and is queued.
C26_Witness ==
    \E x \in raised :
      /\ x.inlock /\ x.rest # <<>>
      /\ \E i \in 1..Len(pending_approvals) :
           pending_approvals[i].email = Head(x.rest)
      /\ counter_lock = Free

\* C27.  Background timers survive a failing tick: a tick of the monitoring
\* loop or of the daily-reset loop that raised leaves its thread alive, and
\* the loop then executes a later tick, unless the coordinator is stopped.
C27_TimersSurvive ==
    /\ [](h["mon"].pc = "except" => mon_alive)
    /\ \A b \in {0, 1} :
         (h["mon"].pc = "except" /\ mon_ticks = b)
           ~> (mon_ticks # b \/ ~active)
    /\ \A t \in Resetters :
         (r[t].pc = "except") ~> (r[t].pc = "cmp" \/ ~active)

\* A tick of the monitoring loop raised, and a later tick fetched a batch
\* that the coordinator is now handling.
C27_Witness ==
    /\ \E x \in raised : x.at = "tick"
    /\ h["mon"].pc = "classify"
    /\ active

\* C28.  Notification is best-effort: the return of _send_for_approval,
\* whether the notification was sent or not, leaves the approval queue as
\* it is, with the item of the message, its intent and its draft in it
\* unless an approve call has sent it meanwhile; an item whose notification
\* failed stays pending until an approve call has sent it.
C28_NotifyBestEffort ==
    /\ [](\A m \in unnotified : PendingFor(m) = 1 \/ ApprovedSends(m) >= 1)
    /\ [][\A t \in Handlers :
            (h[t].pc = "q_notify" /\ h'[t].pc # "q_notify")
              => /\ pending_approvals' = pending_approvals
                 /\ \/ ApprovedSends(h[t].msg) >= 1
                    \/ \E i \in 1..Len(pending_approvals') :
                         /\ pending_approvals'[i].email = h[t].msg
                         /\ pending_approvals'[i].student = h[t].stu
                         /\ pending_approvals'[i].intent = h[t].intent
                         /\ pending_approvals'[i].draft_response = h[t].resp
         ]_vars

\* The notification for a message failed, and an approve call made later
\* sent its reply and returned True.
C28_Witness ==
    /\ a.pc = "idle" /\ a.result = "true"
    /\ a.item.email \in unnotified
    /\ PendingFor(a.item.email) = 0

\* C29.  Sender ledger read-through: over the calls of one handler, one
\* after another, the knowledge store is asked at most once per email and
\* only on a cache miss, a Student is constructed and added only when the
\* cache and the store both miss, a cached record is never replaced, and
\* the record a call returns is the cached one.
C29_ReadThrough ==
    /\ [](\A e \in StudentEmails : lookups[e] <= 1 /\ created[e] <= 1)
    /\ [](\A t \in Handlers :
            h[t].pc \in {"classify", "lock", "check", "inc", "gen", "send",
                         "upd", "q_gen", "q_notify"}
              => (h[t].stu # 0 /\ h[t].stu = students[Sender(h[t].msg)]))
    /\ [][\A e \in StudentEmails :
            /\ lookups'[e] # lookups[e] => students[e] = 0
            /\ created'[e] # created[e] => (students[e] = 0 /\ ~kb[e].known)
            /\ students[e] # 0 => students'[e] = students[e]
         ]_vars

\* The second message of a sender is being handled on the record that was
\* cached for the first, after one lookup in the store.
C29_Witness ==
    \E t \in Handlers :
      /\ h[t].pc = "classify" /\ h[t].msg = 3
      /\ processed[1] = 1
      /\ lookups[Sender(3)] = 1
      /\ h[t].stu = students[Sender(3)]

\* Message m is in the INBOX and was not handed to handle_new_emails by the
\* monitoring loop so far.
Unhanded(m) ==
    /\ inbox[m] # 0
    /\ processed[m] = 0
    /\ h["mon"].msg # m
    /\ \A i \in 1..Len(h["mon"].batch) : h["mon"].batch[i] # m

\* C30.  Monitoring fetch window: the window of the next tick, the messages
\* since the date of last_check_time, covers every message in the INBOX
\* that was not handed to the coordinator yet, also after a tick in which
\* the search failed or a message could not be retrieved.
C30_WindowCoversUnhanded ==
    \A m \in Msgs : Unhanded(m) => m \in SearchSince(last_check_date)

\* C31.  The pending approval queue is insertion-ordered: the pending items
\* stand in the order in which they were queued; an enqueue puts its item
\* behind all the others, and a successful approval takes one item out and
\* leaves the others as they stand.
C31_InsertionOrdered ==
    /\ [](\A i \in 1..Len(pending_approvals), j \in 1..Len(pending_approvals) :
            i < j => pending_approvals[i].timestamp
                       < pending_approvals[j].timestamp)
    /\ [][/\ enqueued' # enqueued
              => /\ SubSeq(pending_approvals', 1, Len(pending_approvals))
                      = pending_approvals
                 /\ Len(pending_approvals') = Len(pending_approvals) + 1
                 /\ Last(pending_approvals').timestamp = enqueued'
          /\ (a.pc = "pop" /\ a'.result = "true")
              => \E k \in 1..Len(pending_approvals) :
                   pending_approvals'
                     = SubSeq(pending_approvals, 1, k - 1)
                         \o SubSeq(pending_approvals, k + 1,
                                   Len(pending_approvals))
         ]_vars

\* Three items were queued, the operator approved the second, and the first
\* and the third are pending, in this order.
C31_Witness ==
    /\ a.pc = "idle" /\ a.result = "true" /\ a.item.timestamp = 2
    /\ Len(pending_approvals) = 2
    /\ pending_approvals[1].timestamp = 1
    /\ pending_approvals[2].timestamp = 3

\* C32.  The counter stays within 0..max_emails_per_day under any
\* interleaving of handlers and reset ticks; it changes only by +1 in the
\* increment of a handler that holds counter_lock since its test, or to 0 in
\* a reset that holds counter_lock; and between a handler's test and its
\* increment the counter is the value that was tested.
C32_CounterInRange ==
    /\ [](email_counter \in 0..MaxEmailsPerDay)
    /\ [](\A t \in Handlers :
            h[t].pc = "inc"
              => /\ counter_lock = t
                 /\ email_counter = h[t].slot
                 /\ h[t].slot < MaxEmailsPerDay)
    /\ [][email_counter' # email_counter
            => \/ \E t \in Handlers :
                    /\ h[t].pc = "inc" /\ h'[t].pc = "gen"
                    /\ counter_lock = t
                    /\ email_counter' = email_counter + 1
               \/ \E t \in Resetters :
                    /\ r[t].pc = "zero" /\ r'[t].pc = "top"
                    /\ counter_lock = t
                    /\ email_counter' = 0
         ]_vars

\* One handler is between its test and its increment of the last slot of
\* the day, a second handler and a reset tick of the next day wait for the
\* lock.
C32_Witness ==
    \E t \in Handlers, u \in Handlers, v \in Resetters :
      /\ h[t].pc = "inc" /\ h[t].slot = MaxEmailsPerDay - 1
      /\ u # t /\ h[u].pc = "lock"
      /\ r[v].pc = "lock"

\* The quota checks that were passed so far.
PassedChecks == Cardinality({i \in 1..Len(qlog) : qlog[i].ok})

\* C33.  Human-approved sends are outside the quota: no step of
\* approve_response, whether the call succeeds or fails, changes
\* email_counter or takes counter_lock, and no step of _queue_for_approval
\* changes email_counter; without a reset the counter is the number of
\* messages that passed the quota test and were counted, whatever was
\* approved or queued meanwhile.
C33_ApprovedOutsideQuota ==
    /\ [](rlog = <<>>
            => email_counter
                 + Cardinality({t \in Handlers : h[t].pc = "inc"})
                 = PassedChecks)
    /\ [][/\ a' # a
              => UNCHANGED <<email_counter, counter_lock, last_reset_date,
                             qlog>>
          /\ \A t \in Handlers :
               (h[t].pc \in {"q_gen", "q_notify"} /\ h'[t] # h[t])
                 => email_counter' = email_counter
         ]_vars

\* The quota of the day is used up, the message that came after it was
\* queued, and an approve call has sent its reply and returned True: more
\* replies went out than the quota allows, and the counter is at the cap.
C33_Witness ==
    /\ a.pc = "idle" /\ a.result = "true"
    /\ email_counter = MaxEmailsPerDay
    /\ Len(sent) = MaxEmailsPerDay + 1
    /\ ApprovedSends(a.item.email) = 1
    /\ \E i \in 1..Len(qlog) : qlog[i].msg = a.item.email /\ ~qlog[i].ok

\* The replies sent for message m by handlers.
AutoSends(m) ==
    Cardinality({i \in 1..Len(sent) : sent[i].via = "auto" /\ sent[i].msg = m})

\* How the processing of message m ended, by what it did.
Outcome(m) ==
    IF AutoSends(m) >= 1 THEN "auto-sent"
    ELSE IF PendingFor(m) >= 1 THEN "queued"
    ELSE "failed"

\* The processing of message m is over.
Done(m) ==
    /\ m \in direct /\ IsStudentEmail(m)
    /\ \A t \in Handlers :
         /\ h[t].msg # m
         /\ \A i \in 1..Len(h[t].batch) : h[t].batch[i] # m

\* The calls after which nothing was sent or queued for the message yet.
EarlyPoints == {"kbget", "kbadd", "gen", "send", "q_gen"}

\* C34.  Exactly one outcome per handled message: one processing of a
\* message sends at most one reply and creates at most one approval item,
\* and never both; a message whose generator answered nothing, whose send
\* was refused, or whose processing raised before the send or the enqueue,
\* has neither a reply nor an item; and the step that ends a processing
\* leaves the message with one reply, or with one item, or with nothing.
C34_OneOutcome ==
    /\ [](\A m \in Msgs :
            /\ processed[m] <= 1
            /\ AutoSends(m) + PendingFor(m) <= 1
            /\ m \in failed => Outcome(m) = "failed"
            /\ \A x \in raised :
                 (x.msg = m /\ x.at \in EarlyPoints) => Outcome(m) = "failed")
    /\ [][\A t \in Handlers, m \in Msgs :
            (h[t].msg = m /\ h'[t].msg # m)
              =>    /\ h[t].pc \in {"upd", "q_notify"} \cup EarlyPoints
                    /\ Outcome(m)' = "auto-sent"
                         <=> (h[t].pc = "upd")
                    /\ Outcome(m)' = "queued"
                         <=> \/ h[t].pc = "q_notify"
                             \/ h[t].pc = "q_gen" /\ raised' = raised
                    /\ Outcome(m)' = "failed"
                         <=> \/ h[t].pc \in {"kbget", "kbadd", "gen", "send"}
                             \/ h[t].pc = "q_gen" /\ raised' # raised
         ]_vars

\* Of three messages handled one was answered, one was queued and one
\* failed, and all three are done with.
C34_Witness ==
    /\ \A m \in 1..3 : Done(m)
    /\ {Outcome(m) : m \in 1..3} = {"auto-sent", "queued", "failed"}
    /\ failed # {}

\* Message m was skipped, or is still to come: nothing was done for it.
Untouched(m) ==
    /\ processed[m] = 0
    /\ \A t \in Handlers : h[t].msg # m
    /\ \A i \in 1..Len(sent) : sent[i].msg # m
    /\ PendingFor(m) = 0
    /\ \A i \in 1..Len(qlog) : qlog[i].msg # m
    /\ Sender(m) \in StudentEmails
         => /\ students[Sender(m)] = 0
            /\ lookups[Sender(m)] = 0
            /\ created[Sender(m)] = 0
            /\ ~kb[Sender(m)].known

\* C35.  A message whose sender is not an address of the student domain is
\* skipped with no side effects: it is not classified, no student record
\* is looked up, created or cached for its sender, nothing is sent or
\* queued for it, and it never comes to the quota test, so that
\* email_counter is not changed for it.
C35_NonStudentSkipped ==
    \A m \in Msgs : ~InStudentDomain(Sender(m)) => Untouched(m)

====
